---- MODULE Spec2Model ----
(***************************************************************************)
(* The grid-to-solid meshing pipeline of scripts/create_mesh.py:           *)
(* create_mesh flips the occupancy grid and calls create_wall, which       *)
(* builds a quad mesh over the cell lattice, deletes loose vertices,       *)
(* dissolves coplanar faces, scales / translates / rotates the object and  *)
(* extrudes the planar region by the wall height.                          *)
(*                                                                         *)
(* Lengths are integers (a float cell size or offset is a multiple of a    *)
(* unit) and angles are multiples of a quarter turn, so that the rotation  *)
(* matrix has integer entries.  Vertex indices are 0-based as in the       *)
(* source; vertex i is verts[i + 1].                                       *)
(*                                                                         *)
(* An operator that uses an argument or an intermediate value more than    *)
(* once binds it as the element of a one-element set ({e : v \in {a}}), and *)
(* a computed sequence is made a tuple with AsSeq: the value is then       *)
(* computed once wherever the operator is evaluated.                       *)
(***************************************************************************)
EXTENDS Integers, Sequences, FiniteSets

VARIABLES grid, thickness, height, origin, pc, x, y, verts, faces, obj

vars == <<grid, thickness, height, origin, pc, x, y, verts, faces, obj>>

\* ---------------------------------------------------------------- bounds
\* largest grid of the meshing runs
MaxH == 2
MaxW == 2
\* largest grid, cell size, wall height and offset of the placement runs
MaxPlacedH == 1
MaxPlacedW == 2
MaxThickness == 2
MaxHeight == 1
MaxOrigin == 1

\* default of the --wall-height argument
DefaultWallHeight == 2

\* angles, in quarter turns
Thetas == {0, 1, 2, 3}

\* ------------------------------------------------------- general helpers
The(S) == CHOOSE e \in S : TRUE

\* the sequence f as a tuple
AsSeq(f) == <<>> \o f

Range(s) == UNION {{t[i] : i \in DOMAIN t} : t \in {s}}

\* the elements of a finite set of integers in increasing order
SetToSeq(S) ==
    The({AsSeq([k \in 1..Cardinality(T) |->
                  CHOOSE a \in T : Cardinality({b \in T : b < a}) = k - 1]) : T \in {S}})

Reverse(s) == The({AsSeq([i \in 1..Len(t) |-> t[Len(t) + 1 - i]]) : t \in {s}})

\* ------------------------------------------------------------ grid model
\* a numpy boolean array of shape (h, w); occ holds the (row, column) pairs
\* whose entry is true
Cells(h, w) == (0..(h - 1)) \X (0..(w - 1))

\* every grid of at most mh rows and mw columns
Grids(mh, mw) ==
    UNION {{[h |-> h, w |-> w, occ |-> o] : o \in SUBSET Cells(h, w)} :
           <<h, w>> \in (0..mh) \X (0..mw)}

\* the smallest grid with a hole: eight occupied cells around a free one
Ring == [h |-> 3, w |-> 3, occ |-> Cells(3, 3) \ {<<1, 1>>}]

\* np.flipud: row r of the result is row h - 1 - r of the argument
flipud(g) ==
    [h |-> g.h, w |-> g.w, occ |-> {<<g.h - 1 - c[1], c[2]>> : c \in g.occ}]

\* grid[y][x]
At(g, yy, xx) == <<yy, xx>> \in g.occ

\* ------------------------------------------------------------ mesh model
\* directed edges of a face, in winding order
FaceEdges(f) == UNION {{<<g[i], g[(i % Len(g)) + 1]>> : i \in 1..Len(g)} : g \in {f}}

Undirected(e) == {e[1], e[2]}

\* the directed edges of all faces
DirectedEdges(fs) == UNION {UNION {FaceEdges(g[i]) : i \in 1..Len(g)} : g \in {fs}}

\* the undirected edges of a mesh built from faces only
MeshEdges(fs) == {Undirected(e) : e \in DirectedEdges(fs)}

\* number of faces that use the undirected edge e
EdgeUse(fs, e) ==
    Cardinality(UNION {{i \in 1..Len(g) : u \in {Undirected(d) : d \in FaceEdges(g[i])}} :
                         <<g, u>> \in {<<fs, e>>}})

Referenced(fs) == UNION {UNION {Range(g[i]) : i \in 1..Len(g)} : g \in {fs}}

\* Renumbered with the face indices left as they were
RenumberedVertsOnly(vs, fs, used, keep) ==
    [verts |-> AsSeq([k \in 1..Len(keep) |-> vs[keep[k] + 1]]), faces |-> fs]

\* the vertices keep[1], keep[2], ... and the faces with every index replaced
\* by the number of used indices below it
Renumbered(vs, fs, used, keep) ==
    [verts |-> AsSeq([k \in 1..Len(keep) |-> vs[keep[k] + 1]]),
     faces |-> AsSeq([k \in 1..Len(fs) |->
                 AsSeq([j \in 1..Len(fs[k]) |-> Cardinality({i \in used : i < fs[k][j]})])])]

\* RemoveUnreferenced that drops only the unused vertices after the last used
RemoveTrailingUnreferenced(vs, fs) ==
    The({[verts |-> SubSeq(vs, 1, Cardinality({i \in 0..(Len(vs) - 1) :
                                                \E k \in used : i <= k})),
          faces |-> fs] : used \in {Referenced(fs)}})

\* drop the vertices no face uses and renumber the face indices
RemoveUnreferenced(vs, fs) ==
    The({The({Renumbered(v, f, used, keep) :
                keep \in {SetToSeq(used \cap (0..(Len(v) - 1)))}}) :
           <<v, f, used>> \in {<<vs, fs, Referenced(fs)>>}})

\* delete_loose that deletes nothing
delete_loose_nothing(vs, fs) == [verts |-> vs, faces |-> fs]

\* bpy.ops.mesh.delete_loose: a vertex with no edge is loose; the mesh has
\* no edges but those of its faces
delete_loose(vs, fs) == RemoveUnreferenced(vs, fs)

\* ------------------------------------------------------------- the object
\* a new object: unit scale, at the world origin, not rotated
NewObject == [scale |-> <<1, 1, 1>>, location |-> <<0, 0, 0>>, rotation |-> 0]

\* the 3-D cursor, the pivot of the rotation; the scene's default
cursor == <<0, 0, 0>>

Cos(q) == CASE q % 4 = 0 -> 1 [] q % 4 = 1 -> 0 [] q % 4 = 2 -> -1 [] OTHER -> 0
Sin(q) == CASE q % 4 = 0 -> 0 [] q % 4 = 1 -> 1 [] q % 4 = 2 -> 0 [] OTHER -> -1

\* rotation about the Z axis by q quarter turns
RotZ(q, p) ==
    <<Cos(q) * p[1] - Sin(q) * p[2], Sin(q) * p[1] + Cos(q) * p[2], p[3]>>

Add(p, d) == <<p[1] + d[1], p[2] + d[2], p[3] + d[3]>>
Sub(p, d) == <<p[1] - d[1], p[2] - d[2], p[3] - d[3]>>

\* world position of a mesh vertex: the object's matrix is
\* translation * rotation * scale
World(o, v) ==
    Add(RotZ(o.rotation, <<o.scale[1] * v[1], o.scale[2] * v[2], o.scale[3] * v[3]>>),
        o.location)

\* ---------------------------------------------------------- initial state
\* create_mesh: the binary image, the resolution and the origin of the map
\* file and the wall height of the command line
\* G: the binary images, P: the triples <<resolution, wall height, origin>>
InitOn(G, P) ==
    /\ \E image \in G : grid = flipud(image)
    /\ \E p \in P : thickness = p[1] /\ height = p[2] /\ origin = p[3]
    /\ pc = "build"
    /\ x = 0
    /\ y = 0
    /\ verts = <<>>
    /\ faces = <<>>
    /\ obj = NewObject

\* unit cells at the world origin, the default wall height
UnitPlacement == <<1, DefaultWallHeight, <<0, 0, 0>>>>

Placements ==
    (0..MaxThickness) \X (0..MaxHeight)
        \X ((0..MaxOrigin) \X (0..MaxOrigin) \X Thetas)

\* every grid up to MaxH x MaxW and the ring, in the unit placement
Init == InitOn(Grids(MaxH, MaxW) \cup {Ring}, {UnitPlacement})

InitPlaced == InitOn(Grids(MaxPlacedH, MaxPlacedW), Placements)

\* --------------------------------------------------------------- actions
\* CellFace with a row of w vertices instead of w + 1
CellFaceRowOfW(xx, yy, w) ==
    LET bottom_left == xx + w * yy
        top_left == bottom_left + w
        top_right == top_left + 1
        bottom_right == bottom_left + 1
    IN  <<bottom_left, bottom_right, top_right, top_left>>

\* the face of cell (row yy, column xx) of a grid of w columns
CellFace(xx, yy, w) ==
    LET bottom_left == xx + (w + 1) * yy
        top_left == bottom_left + w + 1
        top_right == top_left + 1
        bottom_right == bottom_left + 1
    IN  <<bottom_left, bottom_right, top_right, top_left>>

\* one pass of the body of the nested loop over the vertex lattice
BuildStep ==
    /\ pc = "build"
    /\ y < grid.h + 1
    /\ verts' = Append(verts, <<x, y, 0>>)
    /\ faces' =
         IF y < grid.h /\ x < grid.w /\ At(grid, y, x)
         THEN Append(faces, CellFace(x, y, grid.w))
         ELSE faces
    /\ IF x + 1 < grid.w + 1
       THEN x' = x + 1 /\ y' = y
       ELSE x' = 0 /\ y' = y + 1
    /\ UNCHANGED <<grid, thickness, height, origin, pc, obj>>

\* the loop is over: the mesh is made from the lists and linked to the scene
BuildDone ==
    /\ pc = "build"
    /\ ~(y < grid.h + 1)
    /\ pc' = "delete_loose"
    /\ UNCHANGED <<grid, thickness, height, origin, x, y, verts, faces, obj>>

DeleteLoose ==
    /\ pc = "delete_loose"
    /\ \E m \in {delete_loose(verts, faces)} :
         verts' = m.verts /\ faces' = m.faces
    /\ pc' = "dissolve_limited"
    /\ UNCHANGED <<grid, thickness, height, origin, x, y, obj>>

\* ------------------------------------------- bpy.ops.mesh.dissolve_limited
Coord(vs, i) == vs[i + 1]

\* twice the signed area of a face in the xy plane (positive: counter-clockwise
\* seen from +z): the sum over its edges (a, b) of a.x * b.y - b.x * a.y
Area2(vs, f) ==
    The({LET cross(k) == v[g[k] + 1][1] * v[g[(k % Len(g)) + 1] + 1][2]
                         - v[g[(k % Len(g)) + 1] + 1][1] * v[g[k] + 1][2]
             sum[k \in 0..Len(g)] == IF k = 0 THEN 0 ELSE sum[k - 1] + cross(k)
         IN  sum[Len(g)] : <<v, g>> \in {<<vs, f>>}})

\* the faces lie in one plane with the same normal (the angle between the
\* normals is below the operator's angle limit)
Coplanar(vs, f, g) ==
    /\ \A i \in Range(f) \cup Range(g) : Coord(vs, i)[3] = Coord(vs, f[1])[3]
    /\ (Area2(vs, f) > 0) = (Area2(vs, g) > 0)

\* the directed edges of f and g that remain when the edges between them go
JoinEdges(f, g) ==
    UNION {{e \in ef : <<e[2], e[1]>> \notin eg} \cup {e \in eg : <<e[2], e[1]>> \notin ef} :
             <<ef, eg>> \in {<<FaceEdges(f), FaceEdges(g)>>}}

SharedEdges(f, g) ==
    UNION {{e \in ef : <<e[2], e[1]>> \in eg} :
             <<ef, eg>> \in {<<FaceEdges(f), FaceEdges(g)>>}}

\* the end of the edge of E that starts at v
Succ(E, v) == The({(CHOOSE d \in F : d[1] = u)[2] : <<F, u>> \in {<<E, v>>}})

\* follow the edges of E from vertex v for n steps
Walk(E, v, n) ==
    The({AsSeq(LET w[k \in 1..n] == IF k = 1 THEN u ELSE Succ(F, w[k - 1])
               IN  [k \in 1..n |-> w[k]]) : <<F, u>> \in {<<E, v>>}})

\* the lowest vertex index an edge of E starts at
Lowest(E) == CHOOSE v \in {e[1] : e \in E} : \A e \in E : v <= e[1]

\* the remaining edges form one closed loop that visits no vertex twice
SingleLoop(E) ==
    \E F \in {E} :
        /\ Cardinality(F) >= 3
        /\ \A e \in F : Cardinality({d \in F : d[1] = e[1]}) = 1
        /\ \A e \in F : Cardinality({d \in F : d[2] = e[2]}) = 1
        /\ Range(Walk(F, Lowest(F), Cardinality(F))) = {e[1] : e \in F}

\* CanJoin without the test that the joined boundary is one loop
CanJoinAnyLoops(vs, f, g) ==
    /\ SharedEdges(f, g) # {}
    /\ Coplanar(vs, f, g)

\* two faces can be joined: they are coplanar, they share an edge, and what
\* remains of their boundaries is a single loop
CanJoin(vs, f, g) ==
    /\ SharedEdges(f, g) # {}
    /\ Coplanar(vs, f, g)
    /\ SingleLoop(JoinEdges(f, g))

\* the joined face, starting at its lowest vertex index
JoinFaces(f, g) ==
    The({Walk(E, Lowest(E), Cardinality(E)) : E \in {JoinEdges(f, g)}})

Joinable(vs, fs) ==
    {p \in (1..Len(fs)) \X (1..Len(fs)) : p[1] < p[2] /\ CanJoin(vs, fs[p[1]], fs[p[2]])}

\* the faces but the i-th and the j-th, then the new face
ReplacePair(fs, i, j, f) ==
    The({Append(AsSeq([k \in 1..Len(rest) |-> fs[rest[k]]]), f) :
           rest \in {SetToSeq((1..Len(fs)) \ {i, j})}})

\* the mesh after faces i and j are joined: the edges between them and the
\* vertices left without an edge are deleted
JoinPair(vs, fs, i, j) ==
    RemoveUnreferenced(vs, ReplacePair(fs, i, j, JoinFaces(fs[i], fs[j])))

\* the two neighbours of vertex v along face f
Neighbours(f, v) ==
    The({<<g[((i + n - 2) % n) + 1], g[(i % n) + 1]>> :
           <<g, n, i>> \in {<<f, Len(f), CHOOSE k \in 1..Len(f) : f[k] = v>>}})

\* at v the edge from a continues straight on to b, in the plane
Straight(a, v, b) ==
    \E d \in {<<Sub(v, a), Sub(b, v)>>} :
        /\ d[1][1] * d[2][2] - d[1][2] * d[2][1] = 0
        /\ d[1][1] * d[2][1] + d[1][2] * d[2][2] > 0
        /\ d[1][3] = 0 /\ d[2][3] = 0

\* v has exactly two edges and they continue each other in a straight line
Collapsible(vs, fs, v) ==
    /\ Cardinality({e \in MeshEdges(fs) : v \in e}) = 2
    /\ \A k \in 1..Len(fs) :
         v \in Range(fs[k]) =>
           \E nb \in {Neighbours(fs[k], v)} :
               Straight(Coord(vs, nb[1]), Coord(vs, v), Coord(vs, nb[2]))

\* the face without the vertices of S
DropFrom(f, S) ==
    The({AsSeq([k \in 1..Len(keep) |-> f[keep[k]]]) :
           keep \in {SetToSeq({i \in 1..Len(f) : f[i] \notin S})}})

\* CollapseVerts that collapses one vertex only
CollapseOneVert(vs, fs) ==
    The({RemoveUnreferenced(vs, AsSeq([k \in 1..Len(fs) |-> DropFrom(fs[k], S)])) :
           S \in {{v \in Referenced(fs) :
                     /\ Collapsible(vs, fs, v)
                     /\ \A u \in Referenced(fs) : Collapsible(vs, fs, u) => v <= u}}})

\* the mesh after every vertex between two collinear edges is collapsed
CollapseVerts(vs, fs) ==
    The({RemoveUnreferenced(vs, AsSeq([k \in 1..Len(fs) |-> DropFrom(fs[k], S)])) :
           S \in {{v \in Referenced(fs) : Collapsible(vs, fs, v)}}})

\* first phase of dissolve_limited, one edge at a time: join the two faces of
\* an edge; the order in which the edges are taken is left open
DissolveEdge ==
    /\ pc = "dissolve_limited"
    /\ \E p \in Joinable(verts, faces) :
         \E m \in {JoinPair(verts, faces, p[1], p[2])} :
             verts' = m.verts /\ faces' = m.faces
    /\ UNCHANGED <<grid, thickness, height, origin, pc, x, y, obj>>

\* second phase of dissolve_limited, when no edge is left to dissolve
DissolveVerts ==
    /\ pc = "dissolve_limited"
    /\ Joinable(verts, faces) = {}
    /\ \E m \in {CollapseVerts(verts, faces)} :
         verts' = m.verts /\ faces' = m.faces
    /\ pc' = "resize"
    /\ UNCHANGED <<grid, thickness, height, origin, x, y, obj>>

\* ------------------------------------------------- the model transformation
\* bpy.ops.transform.resize(value=(thickness, thickness, 1)), object mode
Resize ==
    /\ pc = "resize"
    /\ obj' = [obj EXCEPT !.scale = <<obj.scale[1] * thickness,
                                      obj.scale[2] * thickness,
                                      obj.scale[3] * 1>>]
    /\ pc' = "translate"
    /\ UNCHANGED <<grid, thickness, height, origin, x, y, verts, faces>>

\* if origin_x or origin_y: bpy.ops.transform.translate(...)
Translate ==
    /\ pc = "translate"
    /\ obj' = IF origin[1] # 0 \/ origin[2] # 0
              THEN [obj EXCEPT !.location = Add(obj.location, <<origin[1], origin[2], 0>>)]
              ELSE obj
    /\ pc' = "rotate"
    /\ UNCHANGED <<grid, thickness, height, origin, x, y, verts, faces>>

\* RotateAbout with the object's own origin as the pivot
RotateAboutOwnOrigin(o, pivot, q) == [o EXCEPT !.rotation = (o.rotation + q) % 4]

\* the object turned by q quarter turns about the pivot
RotateAbout(o, pivot, q) ==
    [o EXCEPT !.location = Add(pivot, RotZ(q, Sub(o.location, pivot))),
              !.rotation = (o.rotation + q) % 4]

\* if origin_theta: pivot at the cursor, bpy.ops.transform.rotate(...)
Rotate ==
    /\ pc = "rotate"
    /\ obj' = IF origin[3] # 0 THEN RotateAbout(obj, cursor, origin[3]) ELSE obj
    /\ pc' = "extrude"
    /\ UNCHANGED <<grid, thickness, height, origin, x, y, verts, faces>>

\* ------------------------------------------ bpy.ops.mesh.extrude_region_move
\* BoundaryEdges with every edge taken for a rim edge, one direction each
BoundaryEdgesEveryEdge(fs) ==
    {e \in DirectedEdges(fs) : <<e[2], e[1]>> \notin DirectedEdges(fs) \/ e[1] < e[2]}

\* the edges on the rim of the region: those used by exactly one face
BoundaryEdges(fs) == {e \in DirectedEdges(fs) : EdgeUse(fs, Undirected(e)) = 1}

\* the side quad over the directed rim edge e; n is the number of vertices
\* of the region, vertex i + n is the copy of vertex i
SideFace(e, n) == <<e[1], e[2], e[2] + n, e[1] + n>>

\* the side faces of the rim edges E, in the order of the edges' ends
SideFaces(E, n) ==
    The({AsSeq([k \in 1..Len(keys) |-> SideFace(<<keys[k] \div n, keys[k] % n>>, n)]) :
           keys \in {SetToSeq({e[1] * n + e[2] : e \in E})}})

\* the whole mesh is selected: every vertex is copied and moved by
\* (0, 0, dz), the faces are copied onto the copies, the originals are kept
\* and flipped, and every rim edge gets a side face
Extrude(vs, fs, dz) ==
    The({[verts |-> vs \o AsSeq([i \in 1..n |-> Add(vs[i], <<0, 0, dz>>)]),
          faces |-> AsSeq([k \in 1..Len(fs) |-> Reverse(fs[k])])
                    \o AsSeq([k \in 1..Len(fs) |->
                                AsSeq([j \in 1..Len(fs[k]) |-> fs[k][j] + n])])
                    \o SideFaces(BoundaryEdges(fs), n)] : n \in {Len(vs)}})

ExtrudeRegionMove ==
    /\ pc = "extrude"
    /\ \E m \in {Extrude(verts, faces, height)} :
         verts' = m.verts /\ faces' = m.faces
    /\ pc' = "done"
    /\ UNCHANGED <<grid, thickness, height, origin, x, y, obj>>

Next ==
    \/ BuildStep
    \/ BuildDone
    \/ DeleteLoose
    \/ DissolveEdge
    \/ DissolveVerts
    \/ Resize
    \/ Translate
    \/ Rotate
    \/ ExtrudeRegionMove

Spec == Init /\ [][Next]_vars

\* the same pipeline over small grids with every placement
SpecPlaced == InitPlaced /\ [][Next]_vars

\* create_wall is straight-line code run by one thread: a step that can be
\* taken is taken
FairSpec == Spec /\ WF_vars(Next)

\* ------------------------------------------------------------ properties
Lattice(g) == (0..g.w) \X (0..g.h)

Built == pc # "build"

\* the faces as lists of coordinates
FaceCoords(vs, f) == [j \in 1..Len(f) |-> Coord(vs, f[j])]

\* the unit square of cell (row yy, column xx): bottom-left, bottom-right,
\* top-right, top-left
CellSquare(yy, xx) ==
    <<<<xx, yy, 0>>, <<xx + 1, yy, 0>>, <<xx + 1, yy + 1, 0>>, <<xx, yy + 1, 0>>>>

\* C1: when the builder loop is over there are (h+1)*(w+1) vertices, vertex
\* (x, y) of the lattice is at index x + (w+1)*y, there is exactly one face per
\* occupied cell and none for a free cell, the face of cell (y, x) is
\* [x+(w+1)y, x+1+(w+1)y, x+1+(w+1)(y+1), x+(w+1)(y+1)], and it is
\* counter-clockwise seen from +z.
C1_OneFacePerOccupiedCell ==
    (pc = "delete_loose") =>
        LET w == grid.w
            h == grid.h
        IN  /\ Len(verts) = (h + 1) * (w + 1)
            /\ \A p \in Lattice(grid) : Coord(verts, p[1] + (w + 1) * p[2]) = <<p[1], p[2], 0>>
            /\ Len(faces) = Cardinality(grid.occ)
            /\ \A c \in Cells(h, w) :
                 LET yy == c[1]
                     xx == c[2]
                     f == <<xx + (w + 1) * yy, xx + 1 + (w + 1) * yy,
                            xx + 1 + (w + 1) * (yy + 1), xx + (w + 1) * (yy + 1)>>
                 IN  Cardinality({k \in 1..Len(faces) : faces[k] = f})
                       = IF c \in grid.occ THEN 1 ELSE 0
            /\ \A k \in 1..Len(faces) :
                 /\ Area2(verts, faces[k]) > 0
                 /\ \E c \in grid.occ : FaceCoords(verts, faces[k]) = CellSquare(c[1], c[2])

\* the builder has finished on a grid with both free and occupied cells
C1_Witness ==
    /\ pc = "delete_loose"
    /\ grid.occ # {}
    /\ grid.occ # Cells(grid.h, grid.w)
    /\ grid.h = MaxH /\ grid.w = MaxW

\* C6: an all-free grid yields an empty model: the builder emits no face and
\* all (h+1)*(w+1) lattice vertices, the removal of unreferenced vertices
\* deletes every vertex, and the later stages leave no face and no vertex.
C6_AllFreeIsEmpty ==
    (grid.occ = {}) =>
        /\ faces = <<>>
        /\ (pc = "delete_loose") => Len(verts) = (grid.h + 1) * (grid.w + 1)
        /\ (pc \notin {"build", "delete_loose"}) => verts = <<>>

\* the pipeline has finished on an all-free grid with cells
C6_Witness ==
    /\ pc = "done"
    /\ grid.occ = {}
    /\ grid.h > 0 /\ grid.w > 0
    /\ verts = <<>> /\ faces = <<>>

\* every index is valid, no face lists a vertex twice, no two faces have the
\* same vertices
MeshInvariant(vs, fs) ==
    /\ \A k \in 1..Len(fs) :
         /\ \A j \in 1..Len(fs[k]) : fs[k][j] \in 0..(Len(vs) - 1)
         /\ Cardinality(Range(fs[k])) = Len(fs[k])
    /\ \A k, l \in 1..Len(fs) : k # l => Range(fs[k]) # Range(fs[l])

\* C7: after the builder and after every later step (vertex removal, each
\* face join, the vertex collapse, the extrusion) every face index is a valid
\* vertex index, no face lists the same vertex twice and no two faces are
\* duplicates.
C7_MeshInvariant == Built => MeshInvariant(verts, faces)

\* a join has removed an inner vertex, so the faces were renumbered
C7_Witness ==
    /\ pc = "dissolve_limited"
    /\ faces # <<>>
    /\ Len(faces) < Cardinality(grid.occ)
    /\ Len(verts) < 2 * Cardinality(grid.occ) + 2

\* C9: the removal of unreferenced vertices leaves only referenced vertices,
\* keeps the coordinates every face denotes, and applied again returns the
\* same vertices and the same faces.
C9_RemovalIdempotent ==
    [][(pc = "delete_loose") =>
         /\ Referenced(faces') = 0..(Len(verts') - 1)
         /\ Len(faces') = Len(faces)
         /\ \A k \in 1..Len(faces) :
              FaceCoords(verts', faces'[k]) = FaceCoords(verts, faces[k])
         /\ delete_loose(verts', faces') = [verts |-> verts', faces |-> faces']]_vars

\* vertices have been removed and faces remain
C9_Witness ==
    /\ pc = "dissolve_limited"
    /\ Len(faces) = Cardinality(grid.occ)
    /\ faces # <<>>
    /\ Len(verts) < (grid.h + 1) * (grid.w + 1)

Min(a, b) == IF a < b THEN a ELSE b
Max(a, b) == IF a > b THEN a ELSE b

\* the centre of cell c lies inside face f: a ray from the centre towards +x
\* crosses the boundary of f an odd number of times
Covers(vs, f, c) ==
    LET crossing == {e \in FaceEdges(f) :
                       LET a == Coord(vs, e[1])
                           b == Coord(vs, e[2])
                       IN  /\ a[1] = b[1]
                           /\ a[1] > c[2]
                           /\ Min(a[2], b[2]) <= c[1]
                           /\ c[1] < Max(a[2], b[2])}
    IN  Cardinality(crossing) % 2 = 1

\* every edge of f is parallel to an axis
Rectilinear(vs, f) ==
    \A e \in FaceEdges(f) :
        LET a == Coord(vs, e[1])
            b == Coord(vs, e[2])
        IN  (a[1] = b[1]) # (a[2] = b[2])

\* the faces tile the occupied cells: an occupied cell is inside exactly one
\* face, a free cell inside none
TilesOccupied ==
    /\ \A k \in 1..Len(faces) : Rectilinear(verts, faces[k]) /\ Area2(verts, faces[k]) > 0
    /\ \A c \in Cells(grid.h, grid.w) :
         Cardinality({k \in 1..Len(faces) : Covers(verts, faces[k], c)})
           = IF c \in grid.occ THEN 1 ELSE 0

RECURSIVE SumArea2(_, _, _)
SumArea2(vs, fs, k) == IF k > Len(fs) THEN 0 ELSE Area2(vs, fs[k]) + SumArea2(vs, fs, k + 1)

\* C8: at every point of the dissolve the faces do not overlap and cover
\* exactly the occupied cells (their areas add up to the number of occupied
\* cells), and no step of the dissolve increases the number of faces or the
\* number of vertices.
C8_MergePreservesRegion ==
    /\ [](pc \in {"dissolve_limited", "resize"} =>
            /\ TilesOccupied
            /\ SumArea2(verts, faces, 1) = 2 * Cardinality(grid.occ))
    /\ [][(pc = "dissolve_limited") =>
            /\ Len(faces') <= Len(faces)
            /\ Len(verts') <= Len(verts)]_vars

\* the ring has been dissolved to fewer faces and the hole is still free
C8_Witness ==
    /\ pc = "resize"
    /\ grid = Ring
    /\ Len(faces) < 8
    /\ \A k \in 1..Len(faces) : ~Covers(verts, faces[k], <<1, 1>>)

\* number of planar faces that use the undirected edge {a, b}
PlanarUse(fs, a, b) ==
    Cardinality({k \in 1..Len(fs) : <<a, b>> \in FaceEdges(fs[k]) \/ <<b, a>> \in FaceEdges(fs[k])})

\* C3: the extrusion of a planar mesh of n vertices gives 2 * (planar faces)
\* + (boundary edges) faces: per planar face the face with its winding
\* reversed and the face on the copies moved by (0, 0, height) with its
\* winding kept, and per edge one side quad if exactly one planar face uses
\* the edge and none otherwise.
C3_ExtrudedFaceCount ==
    [][(pc = "extrude") =>
         LET n == Len(verts)
             E == MeshEdges(faces)
             rim == {e \in E : \E a, b \in e : a # b /\ PlanarUse(faces, a, b) = 1}
             side(e) == {k \in 1..Len(faces') :
                           \E a, b \in e : a # b /\ Range(faces'[k]) = {a, b, a + n, b + n}}
         IN  /\ Len(faces') = 2 * Len(faces) + Cardinality(rim)
             /\ Len(verts') = 2 * n
             /\ \A i \in 1..n : verts'[i] = verts[i]
                                /\ verts'[i + n] = Add(verts[i], <<0, 0, height>>)
             /\ \A k \in 1..Len(faces) :
                  /\ Cardinality({l \in 1..Len(faces') : faces'[l] = Reverse(faces[k])}) = 1
                  /\ Cardinality({l \in 1..Len(faces') :
                        faces'[l] = [j \in 1..Len(faces[k]) |-> faces[k][j] + n]}) = 1
             /\ \A e \in E :
                  Cardinality(side(e)) = IF e \in rim THEN 1 ELSE 0]_vars

\* the ring has been extruded while two planar faces shared an edge
C3_Witness ==
    /\ pc = "done"
    /\ grid = Ring
    /\ \E k \in 1..Len(faces) : \E l \in 1..Len(faces) :
         /\ k # l
         /\ \A i \in Range(faces[k]) \cup Range(faces[l]) : Coord(verts, i)[3] = 0
         /\ SharedEdges(faces[k], faces[l]) # {}

\* C2: in the solid of a grid with an occupied cell every edge is shared by
\* exactly two faces.
C2_ClosedManifold ==
    (pc = "done" /\ grid.occ # {}) =>
        \A e \in MeshEdges(faces) : EdgeUse(faces, e) = 2

Invalid == grid.h = 0 \/ grid.w = 0 \/ thickness <= 0 \/ height <= 0

\* C4: with an empty grid, a cell size <= 0 or a height <= 0 nothing is
\* built: no vertex, no face, and the pipeline does not go on.
C4_InvalidRejected == Invalid => (verts = <<>> /\ faces = <<>> /\ pc = "build")

Transformed == pc \in {"extrude", "done"}

\* C5: after the transform stage the world position of every vertex p is
\* R(theta) * (s * p + t), with z unchanged, whether or not the translate and
\* the rotate were skipped; with s = 1 and origin (0, 0, 0) it is p itself; and
\* for the single cell with origin (1, 0) and a quarter turn the corner (0, 0)
\* is at (0, 1).
C5_ScaleTranslateRotate ==
    Transformed =>
        /\ \A i \in 1..Len(verts) :
             LET p == verts[i]
                 sp == <<thickness * p[1] + origin[1], thickness * p[2] + origin[2], p[3]>>
             IN  /\ World(obj, p) = <<Cos(origin[3]) * sp[1] - Sin(origin[3]) * sp[2],
                                      Sin(origin[3]) * sp[1] + Cos(origin[3]) * sp[2],
                                      p[3]>>
                 /\ (thickness = 1 /\ origin = <<0, 0, 0>>) => World(obj, p) = p
        /\ (/\ grid.occ = {<<0, 0>>}
            /\ origin = <<1, 0, 1>>
            /\ pc = "extrude") => World(obj, Coord(verts, 0)) = <<0, 1, 0>>

\* the transform has been applied with a scale, an offset and a rotation
C5_Witness ==
    /\ pc = "extrude"
    /\ verts # <<>>
    /\ thickness = MaxThickness
    /\ origin = <<1, 0, 1>>
    /\ grid.occ = {<<0, 0>>}

StageOrder == <<"build", "delete_loose", "dissolve_limited", "resize", "translate",
                "rotate", "extrude", "done">>

Rank(p) == CHOOSE i \in 1..Len(StageOrder) : StageOrder[i] = p

\* C10: the pipeline reaches its end, its stages run in the order build,
\* clean, transform, extrude, every join removes a face (so the dissolve
\* ends), and on the mesh the dissolve leaves no two faces can be joined and
\* no vertex collapsed: run again, it changes nothing.
C10_Terminates ==
    /\ <>(pc = "done")
    /\ [][/\ Rank(pc') \in {Rank(pc), Rank(pc) + 1}
          /\ (pc = "dissolve_limited" /\ pc' = pc) => Len(faces') < Len(faces)]_vars
    /\ [](pc \in {"resize", "translate", "rotate", "extrude"} =>
            /\ Joinable(verts, faces) = {}
            /\ CollapseVerts(verts, faces) = [verts |-> verts, faces |-> faces])

\* the full grid ended as one box
C10_Witness ==
    /\ pc = "done"
    /\ grid.h = MaxH /\ grid.w = MaxW
    /\ grid.occ = Cells(MaxH, MaxW)
    /\ Len(faces) = 6
====
